---- MODULE Spec2Model ----
(***************************************************************************)
(* The website-analysis pipeline of gunnit/seoaes: one AnalysisRun row and *)
(* its AnalysisResult rows in the database, written by one of its          *)
(* executors: the sequential orchestrator WebsiteAnalyzer.analyze_website, *)
(* the Celery task analyze_website_task that builds the chain, the stage   *)
(* tasks of the chain as a worker executes them, and the two queue workers *)
(* simple_worker / background_worker.                                      *)
(* Every database commit of the code is one step of the model.             *)
(***************************************************************************)
EXTENDS Integers, Sequences, FiniteSets, TLC

VARIABLES runs, results, mode, page, checkstatus, pc, stage, local,
          stageRes, net, attempts, invocations, redeliveries, dbFaults, escaped,
          started, base, widx, netFailures,
          exists, user_id, spc, cached, last, events,
          websites, website_id, users, response,
          args, ret

vars == <<runs, results, mode, page, checkstatus, pc, stage, local,
          stageRes, net, attempts, invocations, redeliveries, dbFaults, escaped,
          started, base, widx, netFailures,
          exists, user_id, spc, cached, last, events,
          websites, website_id, users, response,
          args, ret>>

\* The state of the progress stream and of the row's existence and ownership.
streamVars == <<exists, user_id, spc, cached, last, events>>

\* The websites and users tables, the website of each run and the response
\* to the last submission.
submitVars == <<websites, website_id, users, response>>

\* The arguments and the return value of a function called on its own.
callVars == <<args, ret>>

\* The state of the database and of the run's executor.
executorVars == <<runs, results, mode, page, checkstatus, pc, stage, local,
                  stageRes, net, attempts, invocations, redeliveries, dbFaults,
                  escaped, started, base, widx, netFailures>>

(***************************************************************************)
(* Bounds of the model.                                                    *)
(***************************************************************************)
MaxDisruptions == 2

\* The runs of the model: the lifecycle of one run.
RunIds == {1}

(***************************************************************************)
(* Nullable columns: None is the empty sequence, a value v is <<v>>.       *)
(***************************************************************************)
Null == <<>>

Some(v) == <<v>>

(***************************************************************************)
(* The closed vocabularies of models.py, each member written by its value. *)
(* The database columns are native enums; an Enum(...) column of the ORM   *)
(* sends the member's name.                                                *)
(***************************************************************************)
AnalysisStatus == {"pending", "analyzing", "complete", "failed"}

CheckCategory == {"technical", "structure", "content", "ai_readiness"}

CheckStatus == {"pass", "warn", "fail"}

\* The name of a CheckStatus member: pass_check = "pass", the others are
\* named as their value.
EnumName(status) == IF status = "pass" THEN "pass_check" ELSE status

\* The labels the database's checkstatus type can have: created from the
\* model by create_all (main.py on an empty database), the same after a
\* later start added 'pass' (main.py lines 49-58), or created by
\* init_database.py.
CheckStatusLabels ==
    { {"pass_check", "warn", "fail"}, {"pass_check", "warn", "fail", "pass"},
      {"pass", "warn", "fail"} }

ImpactLevel == {"critical", "high", "medium", "low"}

\* The columns of the analysis_runs table.
AnalysisRunColumns ==
    {"id", "website_id", "user_id", "status", "overall_score", "progress",
     "started_at", "completed_at", "error_message", "crawled_content",
     "total_checks_run", "total_issues_found", "chatgpt_score",
     "perplexity_score", "claude_score", "google_ai_score", "bing_chat_score"}

\* The NOT NULL columns of analysis_results a writer has to supply.
AnalysisResultRequired ==
    {"analysis_run_id", "check_category", "check_name", "status", "score",
     "impact_level", "fix_difficulty"}

\* A freshly created run: analyze_free / analyze_authenticated.
NewRun ==
    [status |-> "pending", progress |-> 0, overall_score |-> Null,
     completed_at |-> FALSE, error_message |-> Null,
     total_checks_run |-> 0, total_issues_found |-> 0,
     chatgpt_score |-> Null]

(***************************************************************************)
(* The analysed site.  A page is described by the features the checks look *)
(* at; the model analyses two sites.                                       *)
(***************************************************************************)
Pages == {"good", "poor"}

PageFeatures(p) ==
    IF p = "good"
    THEN [scheme |-> "https",
          robots |-> [status_code |-> 200, agents |-> {}, disallowed |-> {},
                      wildcard |-> FALSE, disallow |-> FALSE],
          llms_status |-> 200,
          h1_count |-> 1, question_headings |-> 1, load_time_ds |-> 10,
          viewport |-> TRUE, sitemap_status |-> 200, schema_types |-> 1,
          title |-> "ok", meta_description |-> "ok",
          paragraphs |-> 5, avg_para_length |-> 50, word_count |-> 400,
          lists |-> 1,
          headings |-> <<[interrogative |-> TRUE, next |-> "p", words |-> 50],
                         [interrogative |-> TRUE, next |-> "p", words |-> 45]>>,
          internal_links |-> 4]
    ELSE [scheme |-> "http",
          robots |-> [status_code |-> 200, agents |-> {"gptbot"},
                      disallowed |-> {"gptbot"}, wildcard |-> FALSE,
                      disallow |-> TRUE],
          llms_status |-> 404,
          h1_count |-> 0, question_headings |-> 0, load_time_ds |-> 30,
          viewport |-> FALSE, sitemap_status |-> 404, schema_types |-> 0,
          title |-> "missing", meta_description |-> "missing",
          paragraphs |-> 0, avg_para_length |-> 0, word_count |-> 100,
          lists |-> 0, headings |-> <<>>,
          internal_links |-> 1]

\* One check result as the checks return it and save_results stores it.
Result(name, category, status, score, impact, error) ==
    [check_name |-> name, check_category |-> category, status |-> status,
     score |-> score, impact_level |-> impact, error |-> error]

Max(a, b) == IF a >= b THEN a ELSE b

(***************************************************************************)
(* Stage 1 checks.  fetch is "ok" when the check's HTTP request returns    *)
(* and "raise" when it raises (timeout, connection error).                 *)
(***************************************************************************)
\* WebsiteAnalyzer.AI_BOTS.
AI_BOTS ==
    {"GPTBot", "ChatGPT-User", "Claude-Web", "anthropic-ai", "Bard", "Gemini",
     "Bingbot", "msnbot", "facebook", "facebookexternalhit", "PerplexityBot",
     "CCBot", "YouBot", "Diffbot", "SemrushBot", "AhrefsBot"}

\* bot.lower().
Lower(bot) ==
    CASE bot = "GPTBot" -> "gptbot"
      [] bot = "ChatGPT-User" -> "chatgpt-user"
      [] bot = "Claude-Web" -> "claude-web"
      [] bot = "Bard" -> "bard"
      [] bot = "Gemini" -> "gemini"
      [] bot = "Bingbot" -> "bingbot"
      [] bot = "PerplexityBot" -> "perplexitybot"
      [] bot = "CCBot" -> "ccbot"
      [] bot = "YouBot" -> "youbot"
      [] bot = "Diffbot" -> "diffbot"
      [] bot = "SemrushBot" -> "semrushbot"
      [] bot = "AhrefsBot" -> "ahrefsbot"
      [] OTHER -> bot

\* The bots the loop over AI_BOTS collects.  Of the lower-cased robots.txt it
\* looks at: agents, the names n with "user-agent: n" in the text; disallowed,
\* those of them with "disallow: /" in one of the five lines after the first
\* such line; wildcard, whether "user-agent: *" is in the text; disallow,
\* whether "disallow: /" is.  The list holds the names as AI_BOTS spells them.
blocked_bots(robots) ==
    {bot \in AI_BOTS :
        IF Lower(bot) \in robots.agents
        THEN Lower(bot) \in robots.disallowed
        ELSE robots.wildcard /\ robots.disallow}

check_robots_txt(f, fetch) ==
    IF fetch = "raise"
    THEN Result("AI Bot Access", "ai_readiness", "fail", 0, "medium", TRUE)
    ELSE IF f.robots.status_code # 200
    THEN Result("AI Bot Access", "ai_readiness", "warn", 50, "high", FALSE)
    ELSE IF "gptbot" \in blocked_bots(f.robots)
              \/ "chatgpt-user" \in blocked_bots(f.robots)
    THEN Result("AI Bot Access", "ai_readiness", "fail", 0, "critical", FALSE)
    ELSE IF blocked_bots(f.robots) # {}
    THEN Result("AI Bot Access", "ai_readiness", "warn", 60, "high", FALSE)
    ELSE Result("AI Bot Access", "ai_readiness", "pass", 100, "low", FALSE)

check_llms_txt(f, fetch) ==
    IF fetch = "raise"
    THEN Result("LLMs.txt File", "ai_readiness", "warn", 70, "medium", FALSE)
    ELSE IF f.llms_status = 200
    THEN Result("LLMs.txt File", "ai_readiness", "pass", 100, "low", FALSE)
    ELSE Result("LLMs.txt File", "ai_readiness", "warn", 70, "medium", FALSE)

check_ssl(f) ==
    IF f.scheme # "https"
    THEN Result("SSL Certificate", "technical", "fail", 0, "critical", FALSE)
    ELSE Result("SSL Certificate", "technical", "pass", 100, "low", FALSE)

check_headings(f, fetch) ==
    IF fetch = "raise"
    THEN Result("Heading Structure", "structure", "fail", 0, "medium", TRUE)
    ELSE IF f.h1_count = 0
    THEN Result("Heading Structure", "structure", "fail", 0, "high", FALSE)
    ELSE IF f.h1_count > 1
    THEN Result("Heading Structure", "structure", "warn", 70, "medium", FALSE)
    ELSE IF f.question_headings > 0
    THEN Result("Heading Structure", "structure", "pass", 80, "low", FALSE)
    ELSE Result("Heading Structure", "structure", "warn", 60, "medium", FALSE)

\* net is the set of the stage's checks (by position) whose request raises.
FetchOf(net_, i) == IF i \in net_ THEN "raise" ELSE "ok"

run_instant_checks(f, net_) ==
    << check_robots_txt(f, FetchOf(net_, 1)),
       check_llms_txt(f, FetchOf(net_, 2)),
       check_ssl(f),
       check_headings(f, FetchOf(net_, 4)) >>

(***************************************************************************)
(* Stage 2 checks.  load_time_ds is the load time in tenths of a second.   *)
(***************************************************************************)
check_page_speed(f, fetch) ==
    IF fetch = "raise"
    THEN Result("Page Speed", "technical", "fail", 0, "medium", TRUE)
    ELSE IF f.load_time_ds < 25
    THEN Result("Page Speed", "technical", "pass", 100, "low", FALSE)
    ELSE IF f.load_time_ds < 40
    THEN Result("Page Speed", "technical", "warn", 70, "medium", FALSE)
    ELSE Result("Page Speed", "technical", "fail", 30, "high", FALSE)

check_mobile_responsiveness(f, fetch) ==
    IF fetch = "raise"
    THEN Result("Mobile Responsiveness", "technical", "fail", 0, "medium", TRUE)
    ELSE IF f.viewport
    THEN Result("Mobile Responsiveness", "technical", "pass", 100, "low", FALSE)
    ELSE Result("Mobile Responsiveness", "technical", "fail", 0, "high", FALSE)

check_sitemap(f, fetch) ==
    IF fetch = "raise"
    THEN Result("Sitemap", "technical", "warn", 60, "medium", FALSE)
    ELSE IF f.sitemap_status = 200
    THEN Result("Sitemap", "technical", "pass", 100, "low", FALSE)
    ELSE Result("Sitemap", "technical", "warn", 60, "medium", FALSE)

check_schema_markup(f, fetch) ==
    IF fetch = "raise"
    THEN Result("Schema Markup", "structure", "fail", 0, "medium", TRUE)
    ELSE IF f.schema_types > 0
    THEN Result("Schema Markup", "structure", "pass", 100, "low", FALSE)
    ELSE Result("Schema Markup", "structure", "warn", 50, "high", FALSE)

check_meta_tags(f, fetch) ==
    IF fetch = "raise"
    THEN Result("Meta Tags", "structure", "fail", 0, "medium", TRUE)
    ELSE LET p1 == IF f.title = "missing" THEN 40
                   ELSE IF f.title = "long" THEN 20 ELSE 0
             p2 == IF f.meta_description = "missing" THEN 30
                   ELSE IF f.meta_description = "long" THEN 15 ELSE 0
             score == 100 - p1 - p2
         IN  IF p1 + p2 > 0
             THEN Result("Meta Tags", "structure",
                         IF score > 50 THEN "warn" ELSE "fail",
                         Max(0, score),
                         IF score < 50 THEN "high" ELSE "medium", FALSE)
             ELSE Result("Meta Tags", "structure", "pass", 100, "low", FALSE)

run_technical_analysis(f, net_) ==
    << check_page_speed(f, FetchOf(net_, 1)),
       check_mobile_responsiveness(f, FetchOf(net_, 2)),
       check_sitemap(f, FetchOf(net_, 3)),
       check_schema_markup(f, FetchOf(net_, 4)),
       check_meta_tags(f, FetchOf(net_, 5)) >>

(***************************************************************************)
(* Stage 3 checks: one request for the whole stage, one try block around   *)
(* the three checks.                                                       *)
(***************************************************************************)
analyze_content_structure(f) ==
    IF f.paragraphs = 0
    THEN Result("Content Structure", "content", "fail", 0, "critical", FALSE)
    ELSE LET p1 == IF f.avg_para_length > 100 THEN 30 ELSE 0
             p2 == IF f.word_count < 300 THEN 40 ELSE 0
             p3 == IF f.lists = 0 THEN 20 ELSE 0
             score == 100 - p1 - p2 - p3
         IN  IF p1 + p2 + p3 > 0
             THEN Result("Content Structure", "content",
                         IF score > 50 THEN "warn" ELSE "fail",
                         Max(0, score),
                         IF score < 50 THEN "high" ELSE "medium", FALSE)
             ELSE Result("Content Structure", "content", "pass", score, "low", FALSE)

\* questions: the interrogative headings the check collects; direct_answers:
\* those of them followed by a 40-60 word paragraph.
\* The list check_direct_answers builds.  A heading (h1 to h4) is described by
\* whether its text is a question, the element that follows it ("p", another
\* tag, "none") and the number of words of that element.
question_headings(f) ==
    SelectSeq(f.headings, LAMBDA h : h.interrogative /\ h.next = "p")

with_answers(f) ==
    Len(SelectSeq(question_headings(f),
                  LAMBDA q : 40 <= q.words /\ q.words <= 60))

check_direct_answers(f) ==
    IF question_headings(f) = <<>>
    THEN Result("Direct Answers", "content", "fail", 0, "critical", FALSE)
    ELSE IF with_answers(f) = Len(question_headings(f))
    THEN Result("Direct Answers", "content", "pass", 100, "low", FALSE)
    ELSE IF with_answers(f) > 0
    THEN Result("Direct Answers", "content", "warn", 60, "high", FALSE)
    ELSE Result("Direct Answers", "content", "fail", 20, "critical", FALSE)

check_internal_linking(f) ==
    IF f.internal_links < 3
    THEN Result("Internal Linking", "content", "fail", 30, "high", FALSE)
    ELSE Result("Internal Linking", "content", "pass", 100, "low", FALSE)

run_content_analysis(f, net_) ==
    IF net_ # {}
    THEN << Result("Content Analysis", "content", "fail", 0, "high", TRUE) >>
    ELSE << analyze_content_structure(f),
            check_direct_answers(f),
            check_internal_linking(f) >>

(***************************************************************************)
(* Stage 4: fixed placeholder results (no request is made).                *)
(***************************************************************************)
run_ai_analysis ==
    << Result("ChatGPT Optimization", "ai_readiness", "pass", 75, "medium", FALSE),
       Result("Perplexity Readiness", "ai_readiness", "pass", 80, "low", FALSE) >>

\* The value run_ai_analysis writes to AnalysisRun.chatgpt_score.
ChatGptScore == 75

Stages == 1..4

\* The finalize step, as the stage after the last.
Finalize == 5

\* The check_names a stage can store.
StageNames(s) ==
    CASE s = 1 -> {"AI Bot Access", "LLMs.txt File", "SSL Certificate",
                   "Heading Structure"}
      [] s = 2 -> {"Page Speed", "Mobile Responsiveness", "Sitemap",
                   "Schema Markup", "Meta Tags"}
      [] s = 3 -> {"Content Structure", "Direct Answers", "Internal Linking",
                   "Content Analysis"}
      [] s = 4 -> {"ChatGPT Optimization", "Perplexity Readiness"}

\* The checks a stage is made of, by check_name, in execution order.
StageChecks(s) ==
    CASE s = 1 -> << "AI Bot Access", "LLMs.txt File", "SSL Certificate",
                     "Heading Structure" >>
      [] s = 2 -> << "Page Speed", "Mobile Responsiveness", "Sitemap",
                     "Schema Markup", "Meta Tags" >>
      [] s = 3 -> << "Content Structure", "Direct Answers", "Internal Linking" >>
      [] s = 4 -> << "ChatGPT Optimization", "Perplexity Readiness" >>

\* The positions of a stage's checks that issue an HTTP request of their own
\* (stage 3 issues one request for all its checks).
FetchingChecks(s) ==
    CASE s = 1 -> {1, 2, 4}
      [] s = 2 -> {1, 2, 3, 4, 5}
      [] s = 3 -> {1}
      [] s = 4 -> {}

\* The network conditions a stage is run under: every request answers, the
\* stage's first request raises, every request raises.
NetConds(s) ==
    IF FetchingChecks(s) = {} THEN {{}}
    ELSE {{}, {CHOOSE i \in FetchingChecks(s) :
                   \A j \in FetchingChecks(s) : i <= j},
          FetchingChecks(s)}

RunStage(s, f, net_) ==
    CASE s = 1 -> run_instant_checks(f, net_)
      [] s = 2 -> run_technical_analysis(f, net_)
      [] s = 3 -> run_content_analysis(f, net_)
      [] s = 4 -> run_ai_analysis

(***************************************************************************)
(* Score aggregation.  The category mean is sum/len, 100 for an empty      *)
(* category; the weighted sum is truncated to an integer.  The code does   *)
(* this in Python floats (IEEE-754 binary64, round to nearest, ties to     *)
(* even): sum(scores) / len(scores) is the correctly rounded quotient,     *)
(* 0.40, 0.35, 0.15 and 0.10 are the doubles nearest to 2/5, 7/20, 3/20    *)
(* and 1/10, every product and every sum is rounded, and int() truncates.  *)
(* A float is a record [m, e]: m the significand as a string of bits, most *)
(* significant first, and e the exponent of its last bit; zero has no bits.*)
(***************************************************************************)
RECURSIVE SumScores(_)
SumScores(rs) ==
    IF rs = <<>> THEN 0 ELSE Head(rs).score + SumScores(Tail(rs))

InCategory(rs, c) == SelectSeq(rs, LAMBDA x : x.check_category = c)

\* The number of significand bits of a Python float.
Precision == 53

RECURSIVE BitsOf(_)
BitsOf(n) == IF n = 0 THEN <<>> ELSE Append(BitsOf(n \div 2), n % 2)

RECURSIVE NatOf(_)
NatOf(bits) ==
    IF bits = <<>> THEN 0
    ELSE 2 * NatOf(SubSeq(bits, 1, Len(bits) - 1)) + bits[Len(bits)]

RECURSIVE Strip(_)
Strip(bits) ==
    IF bits # <<>> /\ Head(bits) = 0 THEN Strip(Tail(bits)) ELSE bits

Zeros(n) == [i \in 1..n |-> 0]

\* Long naturals are added and multiplied limb by limb: a bit string is cut
\* into limbs of LimbBits bits, least significant limb first, so that every
\* intermediate value fits a machine integer.
LimbBits == 13

Base == 2 ^ LimbBits

LimbsOf(bits) ==
    LET n == Len(bits)
        k == (n + LimbBits - 1) \div LimbBits
        p == Zeros(k * LimbBits - n) \o bits
    IN  [j \in 1..k |->
            NatOf(SubSeq(p, (k - j) * LimbBits + 1, (k - j + 1) * LimbBits))]

BitsOfLimbs(l) ==
    LET k == Len(l)
    IN  Strip([i \in 1..(k * LimbBits) |->
                  LET pos == k * LimbBits - i
                  IN  (l[pos \div LimbBits + 1] \div (2 ^ (pos % LimbBits))) % 2])

\* Carry propagation over column sums, least significant column first.
RECURSIVE Normalize(_, _)
Normalize(cols, carry) ==
    IF cols = <<>>
    THEN IF carry = 0 THEN <<>>
         ELSE <<carry % Base>> \o Normalize(<<>>, carry \div Base)
    ELSE LET t == Head(cols) + carry
         IN  <<t % Base>> \o Normalize(Tail(cols), t \div Base)

LimbAt(l, j) == IF j >= 1 /\ j <= Len(l) THEN l[j] ELSE 0

AddBits(a, b) ==
    LET la == LimbsOf(a)
        lb == LimbsOf(b)
    IN  BitsOfLimbs(Normalize([j \in 1..Max(Len(la), Len(lb)) |->
                                   LimbAt(la, j) + LimbAt(lb, j)], 0))

\* The sum of la[i] * lb[k + 1 - i] for i in 1..n: column k of the product.
RECURSIVE ColSum(_, _, _, _)
ColSum(la, lb, k, n) ==
    IF n = 0 THEN 0
    ELSE LimbAt(la, n) * LimbAt(lb, k + 1 - n) + ColSum(la, lb, k, n - 1)

MulBits(a, b) ==
    LET la == LimbsOf(a)
        lb == LimbsOf(b)
    IN  IF la = <<>> \/ lb = <<>> THEN <<>>
        ELSE BitsOfLimbs(Normalize([k \in 1..(Len(la) + Len(lb) - 1) |->
                                        ColSum(la, lb, k, Len(la))], 0))

\* Round an exact value bits * 2^e to the nearest float, ties to even.
RoundBits(bits, e) ==
    LET b == Strip(bits)
        n == Len(b)
    IN  IF n <= Precision THEN [m |-> b, e |-> e]
        ELSE LET keep   == SubSeq(b, 1, Precision)
                 guard  == b[Precision + 1]
                 sticky == \E i \in (Precision + 2)..n : b[i] = 1
                 up     == guard = 1 /\ (sticky \/ keep[Precision] = 1)
             IN  [m |-> IF up THEN Strip(AddBits(keep, <<1>>)) ELSE keep,
                  e |-> e + n - Precision]

\* The number of quotient limbs produced after the binary point before the
\* rest of a division is folded into one sticky bit.
FracLimbs == 5

\* Long division of r / n for r < n: k limbs of the quotient, most
\* significant first, followed by the remainder left over.
RECURSIVE FracDigits(_, _, _)
FracDigits(r, n, k) ==
    IF k = 0 THEN <<r>>
    ELSE <<(r * Base) \div n>> \o FracDigits((r * Base) % n, n, k - 1)

\* t / n on two ints: the float nearest to the quotient.
TrueDiv(t, n) ==
    IF t % n = 0 THEN [m |-> BitsOf(t \div n), e |-> 0]
    ELSE LET d      == FracDigits(t % n, n, FracLimbs)
             limbs  == [j \in 1..(FracLimbs + 1) |->
                           IF j = FracLimbs + 1 THEN t \div n
                           ELSE d[FracLimbs + 1 - j]]
             sticky == IF d[FracLimbs + 1] = 0 THEN 0 ELSE 1
         IN  RoundBits(BitsOfLimbs(limbs) \o <<sticky>>,
                       0 - (FracLimbs * LimbBits + 1))

FloatMul(x, y) == RoundBits(MulBits(x.m, y.m), x.e + y.e)

FloatAdd(x, y) ==
    LET e == IF x.e <= y.e THEN x.e ELSE y.e
    IN  RoundBits(AddBits(x.m \o Zeros(x.e - e), y.m \o Zeros(y.e - e)), e)

\* int(x): the integer part of a non-negative float.
FloatInt(x) ==
    IF x.e >= 0 THEN NatOf(x.m \o Zeros(x.e))
    ELSE IF Len(x.m) + x.e <= 0 THEN 0
    ELSE NatOf(SubSeq(x.m, 1, Len(x.m) + x.e))

\* The mean of a category as the code computes it.
category_average(rs, c) ==
    LET scores == InCategory(rs, c)
    IN  IF scores # <<>> THEN TrueDiv(SumScores(scores), Len(scores))
        ELSE TrueDiv(100, 1)

calculate_overall_score(rs) ==
    LET weighted_score ==
            FloatAdd(FloatAdd(FloatAdd(
                FloatMul(category_average(rs, "ai_readiness"), TrueDiv(2, 5)),
                FloatMul(category_average(rs, "content"), TrueDiv(7, 20))),
                FloatMul(category_average(rs, "structure"), TrueDiv(3, 20))),
                FloatMul(category_average(rs, "technical"), TrueDiv(1, 10)))
    IN  FloatInt(weighted_score)

\* The number of results whose status is not pass.
IssuesFound(rs) == Len(SelectSeq(rs, LAMBDA x : x.status # "pass"))

(***************************************************************************)
(* Database writes of the orchestrators.                                   *)
(***************************************************************************)
\* An UPDATE with no WHERE clause: every row of the table gets the new value.
UpdateRow_unkeyed(table, analysis_run_id, row) == [id \in DOMAIN table |-> row]

\* db.get(AnalysisRun, analysis_run_id), an assignment, db.commit(): the row
\* with that key is the one written.
UpdateRow(table, analysis_run_id, row) ==
    [table EXCEPT ![analysis_run_id] = row]

update_progress(run, progress) == [run EXCEPT !.progress = progress]

update_analysis_progress(run, progress) == [run EXCEPT !.progress = progress]

\* Whether the database accepts the rows save_results adds through the ORM.
ResultsAccepted(labels, new) ==
    \A i \in 1..Len(new) : EnumName(new[i].status) \in labels

\* A save that loses the stage's rows: the fault C10_StagesInOrder detects.
save_results_lost(stored, new) == stored

save_results(stored, new) == stored \o new

mark_analysis_failed(run, error_message) ==
    [run EXCEPT !.status = "failed", !.error_message = Some(error_message)]

\* The progress values analyze_website writes before and after stage s.
SeqStageStart(s) ==
    CASE s = 1 -> 5 [] s = 2 -> 25 [] s = 3 -> 50 [] s = 4 -> 75

SeqStageDone(s) ==
    CASE s = 1 -> 20 [] s = 2 -> 45 [] s = 3 -> 70 [] s = 4 -> 95

\* A stage task that announces its ceiling before it ran: the fault
\* C11_ResultsBeforeCeiling detects.
TaskStageStart_ceiling(s) ==
    CASE s = 1 -> 20 [] s = 2 -> 45 [] s = 3 -> 70 [] s = 4 -> 95

\* The progress values the run_*_async helpers write before and after stage s.
TaskStageStart(s) ==
    CASE s = 1 -> 5 [] s = 2 -> 25 [] s = 3 -> 50 [] s = 4 -> 75

TaskStageDone(s) ==
    CASE s = 1 -> 20 [] s = 2 -> 45 [] s = 3 -> 70 [] s = 4 -> 95

\* AnalysisTask.max_retries
max_retries == 3

\* What the environment has done to a run so far: stages run with failing
\* requests, database calls that raised, redelivered stage tasks, repeated
\* invocations of the entry point.  The model bounds their total.
Disruptions(r) ==
    netFailures[r] + dbFaults[r] + redeliveries[r] + (invocations[r] - 1)

CanDisrupt(r) == Disruptions(r) < MaxDisruptions

\* How a run is executed: by analyze_website, by analyze_website_task as the
\* API schedules it, by the stage tasks in the order of the chain, or by one
\* of the queue workers.
Modes ==
    {"sequential", "analyze_website_task", "chain", "simple_worker",
     "background_worker"}

\* The modes in which Celery stage tasks run.
ChainModes == {"analyze_website_task", "chain"}

\* The text of the exceptions the environment raises.
DbError == "db_error"

ArgumentError == "missing_argument"

DataError == "invalid_enum_value"

\* The executor has returned or raised for good and holds no task of the run.
Ended == {"done", "raised", "stopped", "gave_up"}

\* The rows and the executors of the run ids before anything has run.
ExecutorIdle(ids) ==
    /\ runs = [r \in ids |-> NewRun]
    /\ results = [r \in ids |-> <<>>]
    /\ pc = [r \in ids |-> "queued"]
    /\ stage = [r \in ids |-> 0]
    /\ local = [r \in ids |-> <<>>]
    /\ stageRes = [r \in ids |-> <<>>]
    /\ net = [r \in ids |-> {}]
    /\ attempts = [r \in ids |-> 0]
    /\ invocations = [r \in ids |-> 1]
    /\ redeliveries = [r \in ids |-> 0]
    /\ dbFaults = [r \in ids |-> 0]
    /\ escaped = [r \in ids |-> Null]
    /\ started = [r \in ids |-> {}]
    /\ base = [r \in ids |-> 0]
    /\ widx = [r \in ids |-> 0]
    /\ netFailures = [r \in ids |-> 0]

ExecutorInit ==
    /\ ExecutorIdle(RunIds)
    /\ mode \in [RunIds -> Modes]
    /\ checkstatus \in CheckStatusLabels
    /\ page \in [RunIds -> Pages]

\* The streams of the run ids before they are opened: get_analysis_progress
\* starts with last_progress = 0 and last_status = None and an empty session.
StreamClosedOn(ids) ==
    /\ spc = [r \in ids |-> "closed"]
    /\ cached = [r \in ids |-> Null]
    /\ last = [r \in ids |-> [progress |-> 0, status |-> "None"]]
    /\ events = [r \in ids |-> <<>>]

StreamClosed == StreamClosedOn(RunIds)

\* No function is being called on its own.
NoCall == args = Null /\ ret = Null

\* The users of the service, as register creates them, and the plans.
Users == {"u1", "u2"}

PlanType == {"free", "professional", "agency"}

\* The default of users.scans_limit.
ScansLimit == 10

NewUser == [plan |-> "free", scans_used |-> 0, scans_limit |-> ScansLimit]

\* The URLs submitted, each a pair of netloc and path.
Urls == {<<"a.com", "/">>, <<"b.com", "/">>}

\* urlparse(url).netloc
Domain(url) == url[1]

\* The tables after one submission of owner (None for analyze_free) whose
\* run is the run of RunIds.
SubmittedRun(owner) ==
    /\ \E url \in {u \in Urls : u[2] = "/" /\ u[1] = "a.com"} :
          websites = <<[url |-> url, domain |-> Domain(url), user_id |-> owner]>>
    /\ website_id = [r \in RunIds |-> Some(1)]
    /\ user_id = [r \in RunIds |-> owner]
    /\ users = [u \in Users |-> NewUser]
    /\ response = Null

\* The run was created by analyze_free: its row exists and has no owner.
Init ==
    /\ ExecutorInit
    /\ exists = [r \in RunIds |-> TRUE]
    /\ SubmittedRun(Null)
    /\ StreamClosed
    /\ NoCall

(***************************************************************************)
(* WebsiteAnalyzer.analyze_website, one action per commit.                 *)
(***************************************************************************)
\* Lines 40-48: status becomes analyzing, the local result list is empty.
SeqStart(r) ==
    /\ exists[r]
    /\ mode[r] = "sequential" /\ pc[r] = "queued"
    /\ runs' = [runs EXCEPT ![r].status = "analyzing"]
    /\ local' = [local EXCEPT ![r] = <<>>]
    /\ stage' = [stage EXCEPT ![r] = 1]
    /\ pc' = [pc EXCEPT ![r] = "pre"]
    /\ escaped' = [escaped EXCEPT ![r] = Null]
    /\ started' = [started EXCEPT ![r] = {}]
    /\ base' = [base EXCEPT ![r] = Len(results[r])]
    /\ stageRes' = [stageRes EXCEPT ![r] = <<>>]
    /\ net' = [net EXCEPT ![r] = {}]
    /\ UNCHANGED <<results, mode, page, checkstatus, attempts, invocations,
                   redeliveries, dbFaults, widx, netFailures>>
    /\ UNCHANGED streamVars
    /\ UNCHANGED submitVars
    /\ UNCHANGED callVars

\* update_progress before a stage (lines 51, 58, 65, 72).
SeqProgressPre(r) ==
    /\ exists[r]
    /\ mode[r] = "sequential" /\ pc[r] = "pre"
    /\ runs' = UpdateRow(runs, r,
                      update_progress(runs[r], SeqStageStart(stage[r])))
    /\ pc' = [pc EXCEPT ![r] = "run"]
    /\ UNCHANGED <<results, mode, page, checkstatus, stage, local, stageRes,
                   net, attempts, invocations, redeliveries, dbFaults,
                   escaped, started, base, widx, netFailures>>
    /\ UNCHANGED streamVars
    /\ UNCHANGED submitVars
    /\ UNCHANGED callVars

\* The stage's checks run and results.extend(...); stage 4 also commits the
\* engine sub-scores to the run.
SeqRunChecks(r) ==
    /\ exists[r]
    /\ mode[r] = "sequential" /\ pc[r] = "run"
    /\ \E n \in NetConds(stage[r]) :
          LET rs == RunStage(stage[r], PageFeatures(page[r]), n)
          IN  /\ n = {} \/ CanDisrupt(r)
              /\ stageRes' = [stageRes EXCEPT ![r] = rs]
              /\ net' = [net EXCEPT ![r] = n]
              /\ local' = [local EXCEPT ![r] = @ \o rs]
              /\ netFailures' = [netFailures EXCEPT ![r] =
                                    IF n = {} THEN @ ELSE @ + 1]
    /\ runs' = IF stage[r] = 4
               THEN [runs EXCEPT ![r].chatgpt_score = Some(ChatGptScore)]
               ELSE runs
    /\ started' = [started EXCEPT ![r] = @ \cup {stage[r]}]
    /\ pc' = [pc EXCEPT ![r] = "save"]
    /\ UNCHANGED <<results, mode, page, checkstatus, stage, attempts,
                   invocations, redeliveries, dbFaults, escaped, base, widx>>
    /\ UNCHANGED streamVars
    /\ UNCHANGED submitVars
    /\ UNCHANGED callVars

\* save_results: the stage's rows are added and committed together.
SeqSave(r) ==
    /\ exists[r]
    /\ mode[r] = "sequential" /\ pc[r] = "save"
    /\ IF ResultsAccepted(checkstatus, stageRes[r])
       THEN /\ results' = [results EXCEPT ![r] = save_results(@, stageRes[r])]
            /\ pc' = [pc EXCEPT ![r] = "post"]
            /\ UNCHANGED <<runs, escaped>>
       ELSE /\ results' = results
            /\ runs' = [runs EXCEPT ![r] =
                          [@ EXCEPT !.status = "failed",
                                    !.error_message = Some(DataError)]]
            /\ escaped' = [escaped EXCEPT ![r] = Some(DataError)]
            /\ pc' = [pc EXCEPT ![r] = "raised"]
    /\ UNCHANGED <<mode, page, checkstatus, stage, local, stageRes, net,
                   attempts, invocations, redeliveries, dbFaults, started,
                   base, widx, netFailures>>
    /\ UNCHANGED streamVars
    /\ UNCHANGED submitVars
    /\ UNCHANGED callVars

\* update_progress after a stage (lines 55, 62, 69, 76).
SeqProgressPost(r) ==
    /\ exists[r]
    /\ mode[r] = "sequential" /\ pc[r] = "post"
    /\ runs' = [runs EXCEPT ![r] = update_progress(@, SeqStageDone(stage[r]))]
    /\ IF stage[r] < 4
       THEN /\ stage' = [stage EXCEPT ![r] = @ + 1]
            /\ pc' = [pc EXCEPT ![r] = "pre"]
       ELSE /\ stage' = stage
            /\ pc' = [pc EXCEPT ![r] = "fin"]
    /\ stageRes' = [stageRes EXCEPT ![r] = <<>>]
    /\ net' = [net EXCEPT ![r] = {}]
    /\ UNCHANGED <<results, mode, page, checkstatus, local, attempts,
                   invocations, redeliveries, dbFaults, escaped, started,
                   base, widx, netFailures>>
    /\ UNCHANGED streamVars
    /\ UNCHANGED submitVars
    /\ UNCHANGED callVars

\* Lines 79-90: the score of the local result list and the final commit.
SeqFinalize(r) ==
    /\ exists[r]
    /\ mode[r] = "sequential" /\ pc[r] = "fin"
    /\ runs' = [runs EXCEPT ![r] =
                  [@ EXCEPT !.status = "complete",
                            !.overall_score = Some(calculate_overall_score(local[r])),
                            !.progress = 100,
                            !.completed_at = TRUE,
                            !.total_checks_run = Len(local[r]),
                            !.total_issues_found = IssuesFound(local[r])]]
    /\ pc' = [pc EXCEPT ![r] = "fin_post"]
    /\ started' = [started EXCEPT ![r] = @ \cup {Finalize}]
    /\ UNCHANGED <<results, mode, page, checkstatus, stage, local, stageRes,
                   net, attempts, invocations, redeliveries, dbFaults,
                   escaped, base, widx, netFailures>>
    /\ UNCHANGED streamVars
    /\ UNCHANGED submitVars
    /\ UNCHANGED callVars

\* Line 91-93: update_progress(100) and return.
SeqProgress100(r) ==
    /\ exists[r]
    /\ mode[r] = "sequential" /\ pc[r] = "fin_post"
    /\ runs' = [runs EXCEPT ![r] = update_progress(@, 100)]
    /\ pc' = [pc EXCEPT ![r] = "done"]
    /\ UNCHANGED <<results, mode, page, checkstatus, stage, local, stageRes,
                   net, attempts, invocations, redeliveries, dbFaults,
                   escaped, started, base, widx, netFailures>>
    /\ UNCHANGED streamVars
    /\ UNCHANGED submitVars
    /\ UNCHANGED callVars

\* The steps that send a statement to the database and so can raise (the
\* update_progress(100) after the final commit changes nothing and sends
\* none).
DbStep(r) ==
    \/ pc[r] \in {"pre", "save", "post", "fin"}
    \/ pc[r] = "run" /\ stage[r] = 4

\* A database call of the orchestrator raises; the except branch (lines
\* 95-101) marks the run failed with str(e) and re-raises.
SeqFail(r) ==
    /\ exists[r]
    /\ mode[r] = "sequential" /\ DbStep(r)
    /\ CanDisrupt(r)
    /\ dbFaults' = [dbFaults EXCEPT ![r] = @ + 1]
    /\ runs' = [runs EXCEPT ![r] =
                  [@ EXCEPT !.status = "failed",
                            !.error_message = Some(DbError)]]
    /\ escaped' = [escaped EXCEPT ![r] = Some(DbError)]
    /\ pc' = [pc EXCEPT ![r] = "raised"]
    /\ UNCHANGED <<results, mode, page, checkstatus, stage, local, stageRes,
                   net, attempts, invocations, redeliveries, started, base,
                   widx, netFailures>>
    /\ UNCHANGED streamVars
    /\ UNCHANGED submitVars
    /\ UNCHANGED callVars

(***************************************************************************)
(* Celery: analyze_website_task, which builds the chain, and the stage     *)
(* tasks.                                                                  *)
(***************************************************************************)
\* The positional parameters of the five tasks of the chain (lines 43, 53,
\* 63, 73, 83): how many a call must give and how many it may give.
TaskParameters ==
    << [required |-> 3, accepted |-> 3], [required |-> 3, accepted |-> 3],
       [required |-> 3, accepted |-> 3], [required |-> 3, accepted |-> 4],
       [required |-> 2, accepted |-> 2] >>

\* The number of arguments each signature of the chain carries (lines 25-29).
SignatureArgs == <<2, 2, 2, 3, 1>>

\* A task of a chain is called with the return value of the task before it
\* followed by its signature's arguments; the first task has none before it.
ArgumentsGiven(i) == SignatureArgs[i] + (IF i > 1 THEN 1 ELSE 0)

\* Task.apply_async checks the arguments against the task's parameters.
ArgumentsAccepted(i) ==
    /\ TaskParameters[i].required <= ArgumentsGiven(i)
    /\ ArgumentsGiven(i) <= TaskParameters[i].accepted

\* analyze_website_task builds the chain and calls apply_async, which
\* publishes the first task if its arguments are accepted and raises
\* TypeError if not.  The except branch marks the run failed with the text
\* and re-raises; autoretry_for = (Exception,) runs the task again until
\* max_retries is used up.
AnalyzeTask(r) ==
    /\ exists[r]
    /\ mode[r] = "analyze_website_task" /\ pc[r] = "queued"
    /\ IF ArgumentsAccepted(1)
       THEN /\ stage' = [stage EXCEPT ![r] = 1]
            /\ pc' = [pc EXCEPT ![r] = "pre"]
            /\ started' = [started EXCEPT ![r] = {}]
            /\ base' = [base EXCEPT ![r] = Len(results[r])]
            /\ UNCHANGED <<runs, attempts>>
       ELSE /\ runs' = [runs EXCEPT ![r] = mark_analysis_failed(@, ArgumentError)]
            /\ IF attempts[r] < max_retries
               THEN /\ attempts' = [attempts EXCEPT ![r] = @ + 1]
                    /\ pc' = pc
               ELSE /\ attempts' = attempts
                    /\ pc' = [pc EXCEPT ![r] = "gave_up"]
            /\ UNCHANGED <<stage, started, base>>
    /\ UNCHANGED <<results, mode, page, checkstatus, local, stageRes, net,
                   invocations, redeliveries, dbFaults, escaped, widx,
                   netFailures>>
    /\ UNCHANGED streamVars
    /\ UNCHANGED submitVars
    /\ UNCHANGED callVars

\* A worker receives instant_checks_task with its three arguments: the first
\* stage task of the run starts.
ChainStart(r) ==
    /\ exists[r]
    /\ mode[r] = "chain" /\ pc[r] = "queued"
    /\ stage' = [stage EXCEPT ![r] = 1]
    /\ pc' = [pc EXCEPT ![r] = "pre"]
    /\ escaped' = [escaped EXCEPT ![r] = Null]
    /\ started' = [started EXCEPT ![r] = {}]
    /\ base' = [base EXCEPT ![r] = Len(results[r])]
    /\ stageRes' = [stageRes EXCEPT ![r] = <<>>]
    /\ net' = [net EXCEPT ![r] = {}]
    /\ UNCHANGED <<runs, results, mode, page, checkstatus, local, attempts,
                   invocations, redeliveries, dbFaults, widx, netFailures>>
    /\ UNCHANGED streamVars
    /\ UNCHANGED submitVars
    /\ UNCHANGED callVars

\* update_analysis_progress at the start of a stage task.
ChainProgressPre(r) ==
    /\ exists[r]
    /\ mode[r] \in ChainModes /\ pc[r] = "pre"
    /\ runs' = UpdateRow(runs, r,
                      update_analysis_progress(runs[r],
                                               TaskStageStart(stage[r])))
    /\ pc' = [pc EXCEPT ![r] = "run"]
    /\ UNCHANGED <<results, mode, page, checkstatus, stage, local, stageRes,
                   net, attempts, invocations, redeliveries, dbFaults,
                   escaped, started, base, widx, netFailures>>
    /\ UNCHANGED streamVars
    /\ UNCHANGED submitVars
    /\ UNCHANGED callVars

\* The stage's checks run inside the stage task.
ChainRunChecks(r) ==
    /\ exists[r]
    /\ mode[r] \in ChainModes /\ pc[r] = "run"
    /\ \E n \in NetConds(stage[r]) :
          /\ n = {} \/ CanDisrupt(r)
          /\ stageRes' = [stageRes EXCEPT ![r] =
                            RunStage(stage[r], PageFeatures(page[r]), n)]
          /\ net' = [net EXCEPT ![r] = n]
          /\ netFailures' = [netFailures EXCEPT ![r] =
                                IF n = {} THEN @ ELSE @ + 1]
    /\ runs' = IF stage[r] = 4
               THEN [runs EXCEPT ![r].chatgpt_score = Some(ChatGptScore)]
               ELSE runs
    /\ started' = [started EXCEPT ![r] = @ \cup {stage[r]}]
    /\ pc' = [pc EXCEPT ![r] = "save"]
    /\ UNCHANGED <<results, mode, page, checkstatus, stage, local, attempts,
                   invocations, redeliveries, dbFaults, escaped, base, widx>>
    /\ UNCHANGED streamVars
    /\ UNCHANGED submitVars
    /\ UNCHANGED callVars

\* analyzer.save_results inside the stage task.
ChainSave(r) ==
    /\ exists[r]
    /\ mode[r] \in ChainModes /\ pc[r] = "save"
    /\ IF ResultsAccepted(checkstatus, stageRes[r])
       THEN /\ results' = [results EXCEPT ![r] = save_results(@, stageRes[r])]
            /\ pc' = [pc EXCEPT ![r] = "post"]
            /\ escaped' = escaped
       ELSE /\ results' = results
            /\ escaped' = [escaped EXCEPT ![r] = Some(DataError)]
            /\ pc' = [pc EXCEPT ![r] = "stopped"]
    /\ UNCHANGED <<runs, mode, page, checkstatus, stage, local, stageRes, net,
                   attempts, invocations, redeliveries, dbFaults, started,
                   base, widx, netFailures>>
    /\ UNCHANGED streamVars
    /\ UNCHANGED submitVars
    /\ UNCHANGED callVars

\* update_analysis_progress at the end of a stage task; the task has still
\* to return and to be acknowledged (task_acks_late).
ChainProgressPost(r) ==
    /\ exists[r]
    /\ mode[r] \in ChainModes /\ pc[r] = "post"
    /\ runs' = [runs EXCEPT ![r] =
                  update_analysis_progress(@, TaskStageDone(stage[r]))]
    /\ pc' = [pc EXCEPT ![r] = "ack"]
    /\ stageRes' = [stageRes EXCEPT ![r] = <<>>]
    /\ net' = [net EXCEPT ![r] = {}]
    /\ UNCHANGED <<results, mode, page, checkstatus, stage, local, attempts,
                   invocations, redeliveries, dbFaults, escaped, started,
                   base, widx, netFailures>>
    /\ UNCHANGED streamVars
    /\ UNCHANGED submitVars
    /\ UNCHANGED callVars

\* The stage task returns and the chain's next task starts.
ChainNext(r) ==
    /\ exists[r]
    /\ mode[r] \in ChainModes /\ pc[r] = "ack"
    /\ IF stage[r] < 4
       THEN /\ stage' = [stage EXCEPT ![r] = @ + 1]
            /\ pc' = [pc EXCEPT ![r] = "pre"]
       ELSE /\ stage' = stage
            /\ pc' = [pc EXCEPT ![r] = "fin"]
    /\ UNCHANGED <<runs, results, mode, page, checkstatus, local, stageRes,
                   net, attempts, invocations, redeliveries, dbFaults,
                   escaped, started, base, widx, netFailures>>
    /\ UNCHANGED streamVars
    /\ UNCHANGED submitVars
    /\ UNCHANGED callVars

\* finalize_analysis_async: the score of every stored row of the run.
ChainFinalize(r) ==
    /\ exists[r]
    /\ mode[r] \in ChainModes /\ pc[r] = "fin"
    /\ runs' = [runs EXCEPT ![r] =
                  [@ EXCEPT !.status = "complete",
                            !.overall_score = Some(calculate_overall_score(results[r])),
                            !.progress = 100,
                            !.completed_at = TRUE,
                            !.total_checks_run = Len(results[r]),
                            !.total_issues_found = IssuesFound(results[r])]]
    /\ pc' = [pc EXCEPT ![r] = "done"]
    /\ started' = [started EXCEPT ![r] = @ \cup {Finalize}]
    /\ UNCHANGED <<results, mode, page, checkstatus, stage, local, stageRes,
                   net, attempts, invocations, redeliveries, dbFaults,
                   escaped, base, widx, netFailures>>
    /\ UNCHANGED streamVars
    /\ UNCHANGED submitVars
    /\ UNCHANGED callVars

\* A database call inside a stage task raises: the task logs and re-raises
\* (lines 48-50 and alike), the chain stops, nothing is written.
ChainStageFail(r) ==
    /\ exists[r]
    /\ mode[r] \in ChainModes /\ DbStep(r)
    /\ CanDisrupt(r)
    /\ dbFaults' = [dbFaults EXCEPT ![r] = @ + 1]
    /\ escaped' = [escaped EXCEPT ![r] = Some(DbError)]
    /\ pc' = [pc EXCEPT ![r] = "stopped"]
    /\ UNCHANGED <<runs, results, mode, page, checkstatus, stage, local,
                   stageRes, net, attempts, invocations, redeliveries,
                   started, base, widx, netFailures>>
    /\ UNCHANGED streamVars
    /\ UNCHANGED submitVars
    /\ UNCHANGED callVars

\* task_acks_late: the worker is lost before it acknowledged the stage task
\* it was executing, and the broker delivers the task again.
WorkerLost(r) ==
    /\ exists[r]
    /\ mode[r] \in ChainModes /\ pc[r] \in {"run", "save", "post", "ack"}
    /\ stage[r] \in Stages
    /\ CanDisrupt(r)
    /\ redeliveries' = [redeliveries EXCEPT ![r] = @ + 1]
    /\ pc' = [pc EXCEPT ![r] = "pre"]
    /\ stageRes' = [stageRes EXCEPT ![r] = <<>>]
    /\ net' = [net EXCEPT ![r] = {}]
    /\ UNCHANGED <<runs, results, mode, page, checkstatus, stage, local,
                   attempts, invocations, dbFaults, escaped, started, base,
                   widx, netFailures>>
    /\ UNCHANGED streamVars
    /\ UNCHANGED submitVars
    /\ UNCHANGED callVars

\* At-least-once delivery of the orchestrator's entry point: it is invoked
\* again for a run it has already returned or raised for.
Redeliver(r) ==
    /\ exists[r]
    /\ mode[r] \in {"sequential"} \cup ChainModes /\ pc[r] \in Ended
    /\ CanDisrupt(r)
    /\ invocations' = [invocations EXCEPT ![r] = @ + 1]
    /\ attempts' = [attempts EXCEPT ![r] = 0]
    /\ pc' = [pc EXCEPT ![r] = "queued"]
    /\ UNCHANGED <<runs, results, mode, page, checkstatus, stage, local,
                   stageRes, net, redeliveries, dbFaults, escaped, started,
                   base, widx, netFailures>>
    /\ UNCHANGED streamVars
    /\ UNCHANGED submitVars
    /\ UNCHANGED callVars

(***************************************************************************)
(* The queue workers.  simple_worker writes with raw SQL, background_worker*)
(* through the ORM; the database accepts a statement only if it names      *)
(* existing columns and enum labels.                                       *)
(***************************************************************************)
\* An UPDATE the database accepts whatever it names: the fault
\* C13_CompleteHasScoreAndStages detects.
update_analysis_status_accepted(run, status, progress) ==
    [run EXCEPT !.status = status, !.progress = progress]

\* simple_worker.update_analysis_status: UPDATE ... SET status, progress,
\* updated_at; an exception is logged and swallowed.
update_analysis_status(run, status, progress) ==
    IF /\ {"status", "progress", "updated_at"} \subseteq AnalysisRunColumns
       /\ status \in AnalysisStatus
    THEN [run EXCEPT !.status = status, !.progress = progress]
    ELSE run

\* The calls simulate_analysis makes, in order (lines 62-89).
SimpleStages ==
    << <<"in_progress", 5>>, <<"in_progress", 15>>, <<"in_progress", 25>>,
       <<"in_progress", 35>>, <<"in_progress", 50>>, <<"in_progress", 60>>,
       <<"in_progress", 75>>, <<"in_progress", 90>>, <<"complete", 100>> >>

\* The rows both workers store: category, check_name, status, score.
sample_checks ==
    << Result("robots_txt_check", "ai_access", "pass", 100, "critical", FALSE),
       Result("ssl_check", "technical_seo", "pass", 100, "high", FALSE),
       Result("headings_check", "content_quality", "warn", 70, "medium", FALSE),
       Result("sitemap_check", "site_structure", "fail", 40, "high", FALSE) >>

\* The columns simulate_analysis names in its INSERT.
SimpleInsertColumns ==
    {"analysis_run_id", "check_category", "check_name", "status", "score",
     "details", "recommendations"}

\* The columns background_worker sets on each AnalysisResult.
BackgroundInsertColumns ==
    {"analysis_run_id", "check_category", "check_name", "status", "score",
     "details", "recommendations", "impact_level", "fix_difficulty",
     "fix_time_estimate"}

\* A database whose enum columns take any label.
InsertAccepted_unchecked(labels, rows, columns, orm) ==
    AnalysisResultRequired \subseteq columns

\* Whether the database accepts the rows.
InsertAccepted(labels, rows, columns, orm) ==
    /\ AnalysisResultRequired \subseteq columns
    /\ \A i \in 1..Len(rows) :
          /\ rows[i].check_category \in CheckCategory
          /\ (IF orm THEN EnumName(rows[i].status) ELSE rows[i].status)
                \in labels
          /\ rows[i].impact_level \in ImpactLevel

\* The worker takes the run's task off the queue.
SimplePop(r) ==
    /\ exists[r]
    /\ mode[r] = "simple_worker" /\ pc[r] = "queued"
    /\ pc' = [pc EXCEPT ![r] = "work"]
    /\ widx' = [widx EXCEPT ![r] = 1]
    /\ UNCHANGED <<runs, results, mode, page, checkstatus, stage, local,
                   stageRes, net, attempts, invocations, redeliveries,
                   dbFaults, escaped, started, base, netFailures>>
    /\ UNCHANGED streamVars
    /\ UNCHANGED submitVars
    /\ UNCHANGED callVars

SimpleUpdate(r) ==
    /\ exists[r]
    /\ mode[r] = "simple_worker" /\ pc[r] = "work"
    /\ widx[r] <= Len(SimpleStages)
    /\ runs' = [runs EXCEPT ![r] =
                  update_analysis_status(@, SimpleStages[widx[r]][1],
                                         SimpleStages[widx[r]][2])]
    /\ widx' = [widx EXCEPT ![r] = @ + 1]
    /\ UNCHANGED <<results, mode, page, checkstatus, pc, stage, local,
                   stageRes, net, attempts, invocations, redeliveries,
                   dbFaults, escaped, started, base, netFailures>>
    /\ UNCHANGED streamVars
    /\ UNCHANGED submitVars
    /\ UNCHANGED callVars

\* Lines 94-129: the sample rows are inserted and the final score written;
\* if a statement raises, the except branch calls
\* update_analysis_status(analysis_id, 'failed', 0).
SimpleStore(r) ==
    /\ exists[r]
    /\ mode[r] = "simple_worker" /\ pc[r] = "work"
    /\ widx[r] > Len(SimpleStages)
    /\ IF InsertAccepted(checkstatus, sample_checks, SimpleInsertColumns, FALSE)
       THEN /\ results' = [results EXCEPT ![r] = @ \o sample_checks]
            /\ runs' = [runs EXCEPT ![r] =
                          [@ EXCEPT !.overall_score = Some(77),
                                    !.total_issues_found = 2,
                                    !.completed_at = TRUE]]
       ELSE /\ results' = results
            /\ runs' = [runs EXCEPT ![r] = update_analysis_status(@, "failed", 0)]
    /\ pc' = [pc EXCEPT ![r] = "done"]
    /\ UNCHANGED <<mode, page, checkstatus, stage, local, stageRes, net,
                   attempts, invocations, redeliveries, dbFaults, escaped,
                   started, base, widx, netFailures>>
    /\ UNCHANGED streamVars
    /\ UNCHANGED submitVars
    /\ UNCHANGED callVars

\* The (progress, status, score) stages of process_analysis.
BackgroundStages ==
    << <<10, "in_progress", Null>>, <<25, "in_progress", Null>>,
       <<40, "in_progress", Null>>, <<60, "in_progress", Null>>,
       <<80, "in_progress", Null>>, <<100, "complete", Some(77)>> >>

\* background_worker.update_analysis_in_db: <<run, rows>> after the call.
\* AnalysisStatus[status] raises for a name that is no member; at progress
\* 100 the sample rows are added to the same transaction; any exception is
\* logged and swallowed and the transaction is not committed.
update_analysis_in_db(labels, run, rows, status, progress, score) ==
    IF status \notin AnalysisStatus
    THEN <<run, rows>>
    ELSE LET r1 == [run EXCEPT !.status = status, !.progress = progress]
             r2 == IF score # Null
                   THEN [r1 EXCEPT !.overall_score = score,
                                   !.total_issues_found = 2]
                   ELSE r1
             r3 == IF progress = 100
                   THEN [r2 EXCEPT !.completed_at = TRUE]
                   ELSE r2
         IN  IF progress = 100
             THEN IF InsertAccepted(labels, sample_checks, BackgroundInsertColumns, TRUE)
                  THEN <<r3, rows \o sample_checks>>
                  ELSE <<run, rows>>
             ELSE <<r3, rows>>

BackgroundPop(r) ==
    /\ exists[r]
    /\ mode[r] = "background_worker" /\ pc[r] = "queued"
    /\ pc' = [pc EXCEPT ![r] = "work"]
    /\ widx' = [widx EXCEPT ![r] = 1]
    /\ UNCHANGED <<runs, results, mode, page, checkstatus, stage, local,
                   stageRes, net, attempts, invocations, redeliveries,
                   dbFaults, escaped, started, base, netFailures>>
    /\ UNCHANGED streamVars
    /\ UNCHANGED submitVars
    /\ UNCHANGED callVars

BackgroundUpdate(r) ==
    /\ exists[r]
    /\ mode[r] = "background_worker" /\ pc[r] = "work"
    /\ widx[r] <= Len(BackgroundStages)
    /\ LET st == BackgroundStages[widx[r]]
           out == update_analysis_in_db(checkstatus, runs[r], results[r], st[2], st[1], st[3])
       IN  /\ runs' = [runs EXCEPT ![r] = out[1]]
           /\ results' = [results EXCEPT ![r] = out[2]]
    /\ widx' = [widx EXCEPT ![r] = @ + 1]
    /\ pc' = [pc EXCEPT ![r] =
                IF widx[r] = Len(BackgroundStages) THEN "done" ELSE "work"]
    /\ UNCHANGED <<mode, page, checkstatus, stage, local, stageRes, net,
                   attempts, invocations, redeliveries, dbFaults, escaped,
                   started, base, netFailures>>
    /\ UNCHANGED streamVars
    /\ UNCHANGED submitVars
    /\ UNCHANGED callVars

(***************************************************************************)
(* The progress stream (get_analysis_progress) and delete_analysis.        *)
(* The stream's session is made with expire_on_commit=False: db.get        *)
(* returns the object the session already holds without a SELECT, and the  *)
(* commit of each round does not expire it.  cached is that object.        *)
(***************************************************************************)
\* A stream that takes only complete for the end of a run.
TerminalStatuses_complete == {"complete"}

\* The statuses that end the stream.
TerminalStatuses == {"complete", "failed"}

\* .limit(10) of the partial results query.
PartialLimit == 10

\* db.commit() in a session made with expire_on_commit=False: the objects
\* the session holds stay loaded.
SessionCommit(held) == held

\* db.get(AnalysisRun, analysis_id) in the stream's session.
SessionGet(r) ==
    IF cached[r] # Null THEN cached[r]
    ELSE IF exists[r] THEN Some(runs[r]) ELSE Null

\* A comparison that takes every round for a change.
Changed_always(analysis, l) == TRUE

\* analysis.progress != last_progress or analysis.status != last_status
Changed(analysis, l) ==
    analysis.progress # l.progress \/ analysis.status # l.status

ProgressEvent(r, analysis) ==
    [event |-> "progress", status |-> analysis.status,
     progress |-> analysis.progress, overall_score |-> analysis.overall_score,
     partial_results |-> IF ~exists[r] THEN 0
                         ELSE IF Len(results[r]) <= PartialLimit
                              THEN Len(results[r]) ELSE PartialLimit]

CompleteEvent(analysis) == [event |-> "complete", status |-> analysis.status]

NotFoundEvent == [event |-> "error"]

\* The request handler returns the event source; the generator has not run.
OpenStream(r) ==
    /\ spc[r] = "closed"
    /\ spc' = [spc EXCEPT ![r] = "poll"]
    /\ UNCHANGED <<exists, user_id, cached, last, events>>
    /\ UNCHANGED executorVars
    /\ UNCHANGED submitVars
    /\ UNCHANGED callVars

\* One round of the generator's loop up to the sleep: db.get, the comparison
\* with last_progress and last_status, and the events it yields.
Poll(r) ==
    /\ spc[r] = "poll"
    /\ LET got == SessionGet(r)
       IN  IF got = Null
           THEN /\ events' = [events EXCEPT ![r] = Append(@, NotFoundEvent)]
                /\ spc' = [spc EXCEPT ![r] = "ended"]
                /\ UNCHANGED <<cached, last>>
           ELSE LET analysis == got[1]
                IN  /\ cached' = [cached EXCEPT ![r] = got]
                    /\ IF Changed(analysis, last[r])
                       THEN /\ last' = [last EXCEPT ![r] =
                                           [progress |-> analysis.progress,
                                            status |-> analysis.status]]
                            /\ IF analysis.status \in TerminalStatuses
                               THEN /\ events' = [events EXCEPT ![r] =
                                        @ \o <<ProgressEvent(r, analysis),
                                               CompleteEvent(analysis)>>]
                                    /\ spc' = [spc EXCEPT ![r] = "ended"]
                               ELSE /\ events' = [events EXCEPT ![r] =
                                        Append(@, ProgressEvent(r, analysis))]
                                    /\ spc' = [spc EXCEPT ![r] = "sleep"]
                       ELSE /\ spc' = [spc EXCEPT ![r] = "sleep"]
                            /\ UNCHANGED <<last, events>>
    /\ UNCHANGED <<exists, user_id>>
    /\ UNCHANGED executorVars
    /\ UNCHANGED submitVars
    /\ UNCHANGED callVars

\* await asyncio.sleep(2); await db.commit(): the end of a round.
Sleep(r) ==
    /\ spc[r] = "sleep"
    /\ cached' = [cached EXCEPT ![r] = SessionCommit(@)]
    /\ spc' = [spc EXCEPT ![r] = "poll"]
    /\ UNCHANGED <<exists, user_id, last, events>>
    /\ UNCHANGED executorVars
    /\ UNCHANGED submitVars
    /\ UNCHANGED callVars

\* delete_analysis by current_user: 404 for a missing run, 403 for a run of
\* another owner or of none; the delete cascades to the run's results.
delete_analysis(r, current_user) ==
    /\ IF exists[r] /\ user_id[r] = Some(current_user)
       THEN /\ exists' = [exists EXCEPT ![r] = FALSE]
            /\ results' = [results EXCEPT ![r] = <<>>]
       ELSE UNCHANGED <<exists, results>>
    /\ UNCHANGED <<runs, mode, page, checkstatus, pc, stage, local, stageRes,
                   net, attempts, invocations, redeliveries, dbFaults,
                   escaped, started, base, widx, netFailures>>
    /\ UNCHANGED <<user_id, spc, cached, last, events>>
    /\ UNCHANGED submitVars
    /\ UNCHANGED callVars

Delete(r) == \E u \in Users : delete_analysis(r, u)

Next ==
    \E r \in RunIds :
        \/ SeqStart(r)
        \/ SeqProgressPre(r)
        \/ SeqRunChecks(r)
        \/ SeqSave(r)
        \/ SeqProgressPost(r)
        \/ SeqFinalize(r)
        \/ SeqProgress100(r)
        \/ SeqFail(r)
        \/ AnalyzeTask(r)
        \/ ChainStart(r)
        \/ ChainProgressPre(r)
        \/ ChainRunChecks(r)
        \/ ChainSave(r)
        \/ ChainProgressPost(r)
        \/ ChainNext(r)
        \/ ChainFinalize(r)
        \/ ChainStageFail(r)
        \/ WorkerLost(r)
        \/ Redeliver(r)
        \/ SimplePop(r)
        \/ SimpleUpdate(r)
        \/ SimpleStore(r)
        \/ BackgroundPop(r)
        \/ BackgroundUpdate(r)

Spec == Init /\ [][Next]_vars

(***************************************************************************)
(* The run together with its progress stream and delete_analysis.  The run *)
(* may be missing from the start (a stream opened on an id that was never  *)
(* created); otherwise it was created by analyze_authenticated and belongs *)
(* to a user.  The stream only reads the run's row and its results; the    *)
(* run is executed by the task the API schedules or by the stage tasks of  *)
(* the chain, on one page and with the enum labels create_all makes, which *)
(* between them take a run through all four statuses.                      *)
(***************************************************************************)
Owners == {"u1"}

StreamInit ==
    /\ ExecutorInit
    /\ mode \in [RunIds -> ChainModes]
    /\ checkstatus = {EnumName(x) : x \in CheckStatus}
    /\ page = [r \in RunIds |-> CHOOSE p \in Pages : TRUE]
    /\ exists \in [RunIds -> BOOLEAN]
    /\ \E u \in Owners : SubmittedRun(Some(u))
    /\ StreamClosed
    /\ NoCall

StreamNext ==
    \E r \in RunIds :
        \/ AnalyzeTask(r)
        \/ ChainStart(r)
        \/ ChainProgressPre(r)
        \/ ChainRunChecks(r)
        \/ ChainSave(r)
        \/ ChainProgressPost(r)
        \/ ChainNext(r)
        \/ ChainFinalize(r)
        \/ ChainStageFail(r)
        \/ WorkerLost(r)
        \/ Redeliver(r)
        \/ OpenStream(r)
        \/ Poll(r)
        \/ Sleep(r)
        \/ Delete(r)

StreamSpec == StreamInit /\ [][StreamNext]_vars

\* The event loop keeps scheduling the generator: a round that can run does
\* run, and the sleep returns.
StreamLiveSpec ==
    /\ StreamSpec
    /\ \A r \in RunIds : WF_vars(Poll(r)) /\ WF_vars(Sleep(r))

TypeOK ==
    \A r \in RunIds :
        /\ runs[r].progress \in 0..100
        /\ checkstatus \in CheckStatusLabels
        /\ pc[r] \in {"queued", "pre", "run", "save", "post", "ack", "fin",
                      "fin_post", "work"} \cup Ended

(***************************************************************************)
(* Properties.                                                             *)
(***************************************************************************)
Terminal == {"complete", "failed"}

\* The check_names among rows.
NamesOf(rows) == {rows[i].check_name : i \in 1..Len(rows)}

\* The stages whose rows the current invocation has stored.
PersistedStages(r) ==
    {s \in Stages :
        \E i \in (base[r] + 1)..Len(results[r]) :
            results[r][i].check_name \in StageNames(s)}

\* C1: in every reachable state of a run, completed_at is set and progress
\* is 100 if and only if status is complete.
C1_CompleteIffFinished ==
    \A r \in RunIds :
        (runs[r].completed_at /\ runs[r].progress = 100)
            <=> runs[r].status = "complete"

\* C2: in every reachable state of a run, error_message is set if and only
\* if status is failed.
C2_ErrorMessageIffFailed ==
    \A r \in RunIds :
        (runs[r].error_message # Null) <=> runs[r].status = "failed"

\* C3: no step ever stores a progress value below the one stored before it.
C3_ProgressNeverDecreases ==
    [][\A r \in RunIds : runs'[r].progress >= runs[r].progress]_vars

\* C4: once a run is complete or failed, no step changes its status,
\* progress, overall_score or stored results.
C4_TerminalStateIsFinal ==
    [][\A r \in RunIds :
          runs[r].status \in Terminal =>
              /\ runs'[r].status = runs[r].status
              /\ runs'[r].progress = runs[r].progress
              /\ runs'[r].overall_score = runs[r].overall_score
              /\ results'[r] = results[r]]_vars

\* C5: a run never holds two stored results with the same check_name.
C5_OneResultPerCheckName ==
    \A r \in RunIds :
        \A i, j \in 1..Len(results[r]) :
            i # j => results[r][i].check_name # results[r][j].check_name

\* C6: a run whose executor has returned or raised for good (the stage task
\* raised, the retries are used up, the worker finished) is complete or
\* failed, so it cannot stay pending or analyzing forever.
C6_StoppedExecutorLeavesTerminalRun ==
    \A r \in RunIds : pc[r] \in Ended => runs[r].status \in Terminal

\* C7: when an exception has escaped a stage of the current invocation, the
\* run is failed and its error_message is the text of that exception.
C7_EscapedExceptionMarksFailed ==
    \A r \in RunIds :
        escaped[r] # Null =>
            /\ runs[r].status = "failed"
            /\ runs[r].error_message = escaped[r]

\* C8: when a request fails inside a stage, the step that runs the stage's
\* checks leaves the run's status alone and still returns a result for
\* every check of the stage (the remaining checks ran).
C8_CheckErrorDoesNotAbortStage ==
    [][\A r \in RunIds :
          (pc[r] = "run" /\ pc'[r] = "save" /\ net'[r] # {}) =>
              /\ runs'[r].status = runs[r].status
              /\ \A i \in 1..Len(StageChecks(stage[r])) :
                    StageChecks(stage[r])[i] \in NamesOf(stageRes'[r])]_vars

\* C9: a stage returns exactly one result per check of the stage, and the
\* result of a check whose request raised is fail, score 0, with an error
\* detail.
C9_OneResultPerCheck ==
    \A r \in RunIds :
        pc[r] = "save" =>
            /\ Len(stageRes[r]) = Len(StageChecks(stage[r]))
            /\ \A i \in net[r] :
                  i <= Len(stageRes[r]) =>
                      /\ stageRes[r][i].status = "fail"
                      /\ stageRes[r][i].score = 0
                      /\ stageRes[r][i].error

\* C10: within one invocation a stage's checks (and the finalize step) start
\* only after the rows of every earlier stage have been stored.
C10_StagesInOrder ==
    \A r \in RunIds :
        \A s \in started[r] :
            \A t \in Stages : t < s => t \in PersistedStages(r)

\* C10 witness: an invocation that has gone through all four stages and the
\* finalize step.
C10_Witness ==
    \E r \in RunIds :
        /\ started[r] = Stages \cup {Finalize}
        /\ runs[r].status = "complete"

\* The rows a stage returns are all stored for the run: one per check of the
\* stage, or the single row run_content_analysis returns on an error.
StageStored(r, s) ==
    \/ \A i \in 1..Len(StageChecks(s)) :
          StageChecks(s)[i] \in NamesOf(results[r])
    \/ s = 3 /\ "Content Analysis" \in NamesOf(results[r])

\* C11: whenever a run's progress is at or above a stage's ceiling (20, 45,
\* 70, 95), the rows of that stage are stored for the run.
C11_ResultsBeforeCeiling ==
    \A r \in RunIds :
        \A s \in Stages :
            runs[r].progress >= SeqStageDone(s) => StageStored(r, s)

\* C11 witness: a stage task has just written the last ceiling, the run is
\* not yet finalized.
C11_Witness ==
    \E r \in RunIds :
        /\ mode[r] = "chain" /\ pc[r] = "ack" /\ stage[r] = 4
        /\ runs[r].progress = 95
        /\ StageStored(r, 4)

\* C12: what a concurrent reader can see is a committed state of the
\* database; in none of them are a stage's rows stored in part, or stored
\* while progress is still below the stage's ceiling.
C12_StageVisibleAtomically ==
    \A r \in RunIds :
        \A s \in Stages :
            (NamesOf(results[r]) \cap StageNames(s) # {}) =>
                /\ StageStored(r, s)
                /\ runs[r].progress >= SeqStageDone(s)

\* C13: a run whose status is complete has an overall_score and the rows of
\* all four stages.
C13_CompleteHasScoreAndStages ==
    \A r \in RunIds :
        runs[r].status = "complete" =>
            /\ runs[r].overall_score # Null
            /\ \A s \in Stages : StageStored(r, s)

\* C13 witness: the chain's finalize step has completed a run.
C13_Witness ==
    \E r \in RunIds :
        /\ mode[r] = "chain" /\ pc[r] = "done"
        /\ runs[r].status = "complete"
        /\ runs[r].overall_score # Null

\* C14: a complete run stores as many rows as its total_checks_run says.
C14_StoredEqualsChecksRun ==
    \A r \in RunIds :
        runs[r].status = "complete" =>
            Len(results[r]) = runs[r].total_checks_run

\* C15: the total_issues_found of a complete run is the number of its stored
\* rows whose status is not pass.
C15_IssuesAreNonPassingRows ==
    \A r \in RunIds :
        runs[r].status = "complete" =>
            runs[r].total_issues_found = IssuesFound(results[r])


(***************************************************************************)
(* The weighted sum of the category means in exact arithmetic.             *)
(***************************************************************************)
RECURSIVE Gcd(_, _)
Gcd(a, b) == IF b = 0 THEN a ELSE Gcd(b, a % b)

\* The mean of a category as a reduced fraction <<numerator, denominator>>.
CategoryAverage(rs, c) ==
    LET scores == InCategory(rs, c)
        n == Len(scores)
        t == SumScores(scores)
        g == IF n = 0 THEN 1 ELSE Gcd(n, t)
    IN  IF n = 0 THEN <<100, 1>> ELSE <<t \div g, n \div g>>

\* floor(0.40 * a + 0.35 * c + 0.15 * s + 0.10 * t) on one common denominator.
WeightedFloor(rs) ==
    LET a == CategoryAverage(rs, "ai_readiness")
        c == CategoryAverage(rs, "content")
        s == CategoryAverage(rs, "structure")
        t == CategoryAverage(rs, "technical")
        den == a[2] * c[2] * s[2] * t[2]
        num == 40 * a[1] * (den \div a[2]) + 35 * c[1] * (den \div c[2])
               + 15 * s[1] * (den \div s[2]) + 10 * t[1] * (den \div t[2])
    IN  num \div (100 * den)

(***************************************************************************)
(* calculate_overall_score on its own: the result list is drawn from the   *)
(* lists that hold at most one result per category, with a score out of    *)
(* ScoreValues, and the function is applied to it once.                    *)
(***************************************************************************)
ScoreValues == {0, 6, 50, 100}

CategoryOrder == <<"ai_readiness", "content", "structure", "technical">>

RECURSIVE ScoreInput(_, _)
ScoreInput(f, i) ==
    IF i = 0 THEN <<>>
    ELSE ScoreInput(f, i - 1)
         \o (IF f[CategoryOrder[i]] = Null THEN <<>>
             ELSE <<Result("Score Input", CategoryOrder[i], "warn",
                           f[CategoryOrder[i]][1], "medium", FALSE)>>)

ScoreInputs ==
    {ScoreInput(f, Len(CategoryOrder)) :
        f \in [CheckCategory -> {Null} \cup {Some(v) : v \in ScoreValues}]}

ScoreInit ==
    /\ runs = [r \in RunIds |-> NewRun]
    /\ results \in [RunIds -> ScoreInputs]
    /\ mode = [r \in RunIds |-> "sequential"]
    /\ checkstatus = {EnumName(x) : x \in CheckStatus}
    /\ page = [r \in RunIds |-> CHOOSE p \in Pages : TRUE]
    /\ pc = [r \in RunIds |-> "score"]
    /\ stage = [r \in RunIds |-> 0]
    /\ local = [r \in RunIds |-> <<>>]
    /\ stageRes = [r \in RunIds |-> <<>>]
    /\ net = [r \in RunIds |-> {}]
    /\ attempts = [r \in RunIds |-> 0]
    /\ invocations = [r \in RunIds |-> 1]
    /\ redeliveries = [r \in RunIds |-> 0]
    /\ dbFaults = [r \in RunIds |-> 0]
    /\ escaped = [r \in RunIds |-> Null]
    /\ started = [r \in RunIds |-> {}]
    /\ base = [r \in RunIds |-> 0]
    /\ widx = [r \in RunIds |-> 0]
    /\ netFailures = [r \in RunIds |-> 0]
    /\ exists = [r \in RunIds |-> TRUE]
    /\ SubmittedRun(Null)
    /\ StreamClosed
    /\ NoCall

ApplyScore(r) ==
    /\ pc[r] = "score"
    /\ runs' = [runs EXCEPT ![r].overall_score =
                                Some(calculate_overall_score(results[r]))]
    /\ pc' = [pc EXCEPT ![r] = "scored"]
    /\ UNCHANGED <<results, mode, page, checkstatus, stage, local, stageRes,
                   net, attempts, invocations, redeliveries, dbFaults,
                   escaped, started, base, widx, netFailures>>
    /\ UNCHANGED streamVars
    /\ UNCHANGED submitVars
    /\ UNCHANGED callVars

ScoreNext == \E r \in RunIds : ApplyScore(r)

ScoreSpec == ScoreInit /\ [][ScoreNext]_vars

\* C16: for every result list with scores in 0..100 the value returned by
\* calculate_overall_score is the floor of 0.40 * mean(ai_readiness) +
\* 0.35 * mean(content) + 0.15 * mean(structure) + 0.10 * mean(technical),
\* the mean of an empty category being 100, and lies in 0..100.
C16_ScoreIsWeightedFloor ==
    \A r \in RunIds :
        pc[r] = "scored" =>
            /\ runs[r].overall_score = Some(WeightedFloor(results[r]))
            /\ runs[r].overall_score[1] \in 0..100

(***************************************************************************)
(* Properties of the progress stream.                                      *)
(***************************************************************************)
\* The events the step adds to the stream of run r.
Emitted(r) == SubSeq(events'[r], Len(events[r]) + 1, Len(events'[r]))

\* The progress notifications among a sequence of events.
ProgressEvents(es) == SelectSeq(es, LAMBDA e : e.event = "progress")

\* A round of the loop of run r's stream runs in this step.
Polls(r) == spc[r] = "poll" /\ spc'[r] # "poll"

\* The run the round reads has the progress and status of the last progress
\* notification of the stream.
SameAsLastEmitted(r) ==
    LET got  == SessionGet(r)
        sent == ProgressEvents(events[r])
    IN  /\ got # Null
        /\ sent # <<>>
        /\ got[1].progress = sent[Len(sent)].progress
        /\ got[1].status = sent[Len(sent)].status

\* C17: a round of the stream emits a progress notification only when the
\* progress or the status it reads differs from those of the last progress
\* notification it emitted, and emits nothing when it reads the same values.
C17_ProgressOnlyOnChange ==
    [][\A r \in RunIds :
          /\ ProgressEvents(Emitted(r)) # <<>> => Polls(r) /\ ~SameAsLastEmitted(r)
          /\ Polls(r) /\ SameAsLastEmitted(r) => Emitted(r) = <<>>]_vars

\* C17 witness: the stream has emitted one progress notification, is in its
\* loop and holds the run it read, so that a further round reads the values
\* it emitted, while the run in the database has moved on.
C17_Witness ==
    \E r \in RunIds :
        /\ spc[r] = "sleep"
        /\ Len(events[r]) = 1
        /\ cached[r] # Null
        /\ cached[r][1].progress = events[r][1].progress
        /\ runs[r].progress # events[r][1].progress

\* The terminal notifications among a sequence of events.
CompleteEvents(es) == SelectSeq(es, LAMBDA e : e.event = "complete")

\* C18: once a round of the stream has read the run in status complete or
\* failed, the stream has emitted exactly one terminal notification, as its
\* last event, and has stopped; nothing is emitted after a terminal
\* notification; a round that reads pending or analyzing emits none.
C18_OneTerminalThenStop ==
    [][\A r \in RunIds :
          /\ Len(CompleteEvents(events'[r])) <= 1
          /\ (cached'[r] # Null /\ cached'[r][1].status \in {"complete", "failed"})
                 => /\ Len(CompleteEvents(events'[r])) = 1
                    /\ events'[r][Len(events'[r])].event = "complete"
                    /\ spc'[r] = "ended"
          /\ (Polls(r) /\ SessionGet(r) # Null
                 /\ SessionGet(r)[1].status \in {"pending", "analyzing"})
                 => CompleteEvents(Emitted(r)) = <<>>
          /\ CompleteEvents(events[r]) # <<>>
                 => events'[r] = events[r] /\ spc'[r] = spc[r]]_vars

\* C18 witness: a stream that read a failed run has emitted the progress and
\* the terminal notification and has ended.
C18_Witness ==
    \E r \in RunIds :
        /\ spc[r] = "ended"
        /\ Len(events[r]) = 2
        /\ events[r][2] = [event |-> "complete", status |-> "failed"]
        /\ cached[r] # Null /\ cached[r][1].status = "failed"

\* C19: a round of the stream that runs while the run's row does not exist
\* (never created, or deleted since the stream was opened) emits one not-found
\* notification and ends the stream, and nothing is emitted after it.
C19_MissingRunEndsStream ==
    [][\A r \in RunIds :
          /\ Polls(r) /\ ~exists[r]
                 => Emitted(r) = <<NotFoundEvent>> /\ spc'[r] = "ended"
          /\ SelectSeq(events[r], LAMBDA e : e = NotFoundEvent) # <<>>
                 => events'[r] = events[r] /\ spc'[r] = spc[r]]_vars

\* C20: whenever a stream is open on a run that is complete, failed or
\* deleted, the stream eventually ends (with the terminal or the not-found
\* notification), given that its loop keeps being scheduled.
C20_StreamEventuallyEnds ==
    \A r \in RunIds :
        (/\ spc[r] \in {"poll", "sleep"}
         /\ (runs[r].status \in {"complete", "failed"} \/ ~exists[r]))
            ~> (spc[r] = "ended")

(***************************************************************************)
(* Properties of the run's life cycle and of the writers.                  *)
(***************************************************************************)
\* C21: a run leaves pending for analyzing once, before a stage runs and
\* before a progress above 0 is stored: no step leaves a run pending that has
\* a progress above 0 or a started stage, and no step takes a run back to
\* pending.
C21_AnalyzingBeforeWork ==
    [][\A r \in RunIds :
          /\ (runs'[r].progress > 0 \/ started'[r] # {})
                 => runs'[r].status # "pending"
          /\ runs[r].status # "pending" => runs'[r].status # "pending"]_vars

MaxRuns == 2

SubmitIds == 1..MaxRuns

\* A key generator that may return an id of an existing row.
FreshIds_any(ex) == DOMAIN ex

\* The ids uuid.uuid4 can return for a new row: one no row has.  No step reads
\* more of an id than whether it equals another, so of the unused ids the
\* least stands for all of them.
FreshIds(ex) ==
    LET unused == {id \in DOMAIN ex : ~ex[id]}
    IN  {id \in unused : \A other \in unused : id <= other}

\* What handing the task over can do: Celery takes it; Celery raises and the
\* Redis list takes it; both raise.
QueueOutcomes == {"celery", "fallback", "down"}

\* The websites whose domain is the one given.
ByDomain(ws, domain) == {i \in 1..Len(ws) : ws[i].domain = domain}

\* The websites of a user with the domain given.
ByDomainAndUser(ws, domain, u) ==
    {i \in ByDomain(ws, domain) : ws[i].user_id = Some(u)}

Response(handler, code, id) == [handler |-> handler, code |-> code, id |-> id]

\* db.add(AnalysisRun(website_id, user_id, status=pending, progress=0)).
CreateRun(id, w, owner) ==
    /\ exists' = [exists EXCEPT ![id] = TRUE]
    /\ runs' = [runs EXCEPT ![id] = NewRun]
    /\ results' = [results EXCEPT ![id] = <<>>]
    /\ website_id' = [website_id EXCEPT ![id] = Some(w)]
    /\ user_id' = [user_id EXCEPT ![id] = owner]

\* Everything a submission leaves alone.
SubmitFrame ==
    UNCHANGED <<page, checkstatus, stage, local, stageRes, net, attempts,
                invocations, redeliveries, dbFaults, escaped, started, base,
                widx, netFailures, spc, cached, last, events, args, ret>>

\* A submission that is refused before it writes.
Refused(handler, code) ==
    /\ response' = Response(handler, code, Null)
    /\ UNCHANGED <<runs, results, mode, pc, exists, user_id, websites,
                   website_id, users>>

\* POST /free.  scalar_one_or_none raises when the domain matches more than
\* one website.
analyze_free(url, q) ==
    /\ LET found == ByDomain(websites, Domain(url))
       IN  IF Cardinality(found) > 1
           THEN Refused("analyze_free", 500)
           ELSE LET ws == IF found = {}
                          THEN Append(websites,
                                      [url |-> url, domain |-> Domain(url),
                                       user_id |-> Null])
                          ELSE websites
                    w  == IF found = {} THEN Len(ws)
                          ELSE CHOOSE i \in found : TRUE
                IN  \E id \in FreshIds(exists) :
                        /\ websites' = ws
                        /\ CreateRun(id, w, Null)
                        /\ mode' = [mode EXCEPT ![id] =
                                       IF q = "fallback" THEN "simple_worker"
                                       ELSE "analyze_website_task"]
                        /\ pc' = [pc EXCEPT ![id] =
                                     IF q = "down" THEN "unqueued" ELSE "queued"]
                        /\ response' =
                               IF q = "down"
                               THEN Response("analyze_free", 500, Null)
                               ELSE Response("analyze_free", 200, Some(id))
                        /\ users' = users
    /\ SubmitFrame

\* POST "" by current_user u.  There is no fallback queue.
analyze_authenticated(u, url, q) ==
    /\ q # "fallback"
    /\ IF users[u].plan = "free" /\ users[u].scans_used >= users[u].scans_limit
       THEN Refused("analyze_authenticated", 403)
       ELSE LET found == ByDomainAndUser(websites, Domain(url), u)
            IN  IF Cardinality(found) > 1
                THEN Refused("analyze_authenticated", 500)
                ELSE LET ws == IF found = {}
                               THEN Append(websites,
                                           [url |-> url, domain |-> Domain(url),
                                            user_id |-> Some(u)])
                               ELSE websites
                         w  == IF found = {} THEN Len(ws)
                               ELSE CHOOSE i \in found : TRUE
                    IN  \E id \in FreshIds(exists) :
                            /\ websites' = ws
                            /\ CreateRun(id, w, Some(u))
                            /\ users' = [users EXCEPT ![u].scans_used = @ + 1]
                            /\ mode' = [mode EXCEPT ![id] = "analyze_website_task"]
                            /\ pc' = [pc EXCEPT ![id] =
                                         IF q = "down" THEN "unqueued"
                                         ELSE "queued"]
                            /\ response' =
                                   IF q = "down"
                                   THEN Response("analyze_authenticated", 500, Null)
                                   ELSE Response("analyze_authenticated", 200,
                                                 Some(id))
    /\ SubmitFrame

\* No run, no website; the users are on the plan of a new account and have used
\* none of their scans or all but one.
SubmitInit ==
    /\ ExecutorIdle(SubmitIds)
    /\ StreamClosedOn(SubmitIds)
    /\ mode = [r \in SubmitIds |-> "analyze_website_task"]
    /\ checkstatus = {EnumName(x) : x \in CheckStatus}
    /\ page = [r \in SubmitIds |-> CHOOSE p \in Pages : TRUE]
    /\ exists = [r \in SubmitIds |-> FALSE]
    /\ user_id = [r \in SubmitIds |-> Null]
    /\ websites = <<>>
    /\ website_id = [r \in SubmitIds |-> Null]
    /\ \E n \in {0, ScansLimit - 1} :
          users = [u \in Users |-> [NewUser EXCEPT !.scans_used = n]]
    /\ response = Null
    /\ NoCall

SubmitNext ==
    \/ \E url \in Urls, q \in QueueOutcomes :
          \/ analyze_free(url, q)
          \/ \E u \in Users : analyze_authenticated(u, url, q)
    \/ \E r \in SubmitIds : AnalyzeTask(r)

SubmitSpec == SubmitInit /\ [][SubmitNext]_vars

C30_DomainLookupUnique ==
    /\ \A url \in Urls : Cardinality(ByDomain(websites, Domain(url))) <= 1
    /\ response # Null /\ response.handler = "analyze_free" =>
           \/ response.code = 200
           \/ \E r \in SubmitIds : exists[r] /\ pc[r] = "unqueued"

(***************************************************************************)
(* Two runs at once: one driven by analyze_website, one by the chained     *)
(* stage tasks, their steps interleaved in any order.                      *)
(***************************************************************************)
PairIds == {1, 2}

PairInit ==
    /\ ExecutorIdle(PairIds)
    /\ StreamClosedOn(PairIds)
    /\ mode = [r \in PairIds |-> IF r = 1 THEN "sequential" ELSE "chain"]
    /\ checkstatus = {EnumName(x) : x \in CheckStatus}
    /\ page = [r \in PairIds |-> CHOOSE p \in Pages : TRUE]
    /\ exists = [r \in PairIds |-> TRUE]
    /\ websites = <<[url |-> <<"a.com", "/">>, domain |-> "a.com",
                     user_id |-> Null]>>
    /\ website_id = [r \in PairIds |-> Some(1)]
    /\ user_id = [r \in PairIds |-> Null]
    /\ users = [u \in Users |-> NewUser]
    /\ response = Null
    /\ NoCall

PairNext ==
    \E r \in PairIds :
        \/ SeqStart(r)
        \/ SeqProgressPre(r)
        \/ SeqRunChecks(r)
        \/ SeqSave(r)
        \/ SeqProgressPost(r)
        \/ SeqFinalize(r)
        \/ SeqProgress100(r)
        \/ SeqFail(r)
        \/ ChainStart(r)
        \/ ChainProgressPre(r)
        \/ ChainRunChecks(r)
        \/ ChainSave(r)
        \/ ChainProgressPost(r)
        \/ ChainNext(r)
        \/ ChainFinalize(r)
        \/ ChainStageFail(r)

PairSpec == PairInit /\ [][PairNext]_vars

\* What the executor of run r holds, with the run's rows.
ExecutorOf(r) ==
    <<runs[r], results[r], pc[r], stage[r], local[r], stageRes[r], net[r],
      attempts[r], invocations[r], redeliveries[r], dbFaults[r], escaped[r],
      started[r], base[r], widx[r], netFailures[r]>>

\* C24: a step taken for one run (an orchestrator step, a stage task, a
\* progress write, a save) leaves the run row (status, progress, scores,
\* counts) and the results of every other run as they were, whatever the
\* other run is doing.
C24_RunsIndependent ==
    [][\A r \in PairIds :
          ExecutorOf(r)' # ExecutorOf(r) =>
              \A other \in PairIds \ {r} :
                  /\ runs'[other] = runs[other]
                  /\ results'[other] = results[other]]_vars

\* Both runs are under way, each with stored results and its own progress.
C24_Witness ==
    /\ runs[1].status = "analyzing" /\ runs[2].status = "pending"
    /\ runs[1].progress > 0 /\ runs[2].progress > 0
    /\ runs[1].progress # runs[2].progress
    /\ results[1] # <<>> /\ results[2] # <<>>
    /\ Len(results[1]) # Len(results[2])

\* C25: when every request of a stage times out, each check of the stage that
\* depends on a request (all three checks of the content stage depend on its
\* one request) has a result of its own with status fail and an error
\* detail, and the run is not marked failed by it.
C25_TimedOutStageFailsEachCheck ==
    [][\A r \in RunIds :
          (/\ pc[r] = "run" /\ pc'[r] = "save"
           /\ net'[r] # {} /\ net'[r] = FetchingChecks(stage[r])) =>
              /\ runs'[r].status # "failed"
              /\ \A i \in (IF stage[r] = 3 THEN 1..3 ELSE FetchingChecks(stage[r])) :
                    \E k \in 1..Len(stageRes'[r]) :
                        /\ stageRes'[r][k].check_name = StageChecks(stage[r])[i]
                        /\ stageRes'[r][k].status = "fail"
                        /\ stageRes'[r][k].error]_vars

(***************************************************************************)
(* A check or a score function called on its own: the arguments are drawn  *)
(* at the start, the call stores what the function returns.                *)
(***************************************************************************)
\* No run is executing; the arguments are one of the inputs given.
CallInit(inputs) ==
    /\ ExecutorIdle(RunIds)
    /\ mode = [r \in RunIds |-> "sequential"]
    /\ checkstatus = {EnumName(x) : x \in CheckStatus}
    /\ page = [r \in RunIds |-> CHOOSE p \in Pages : TRUE]
    /\ exists = [r \in RunIds |-> TRUE]
    /\ SubmittedRun(Null)
    /\ StreamClosed
    /\ args \in inputs
    /\ ret = Null

\* The call returns value.
Return(value) ==
    /\ ret = Null
    /\ ret' = Some(value)
    /\ UNCHANGED args
    /\ UNCHANGED executorVars
    /\ UNCHANGED streamVars
    /\ UNCHANGED submitVars

\* The user-agent names the robots.txt files of the inputs mention.
MentionedAgents == {"gptbot", "chatgpt-user", "ccbot"}

\* The robots.txt responses check_robots_txt is called with.
RobotsFiles ==
    {robots \in [status_code : {200, 404}, agents : SUBSET MentionedAgents,
                 disallowed : SUBSET MentionedAgents, wildcard : BOOLEAN,
                 disallow : BOOLEAN] :
        /\ robots.disallowed \subseteq robots.agents
        /\ robots.disallowed # {} => robots.disallow}

RobotsInit ==
    CallInit([robots : RobotsFiles, fetch : {"ok", "raise"}])

CallCheckRobotsTxt == Return(check_robots_txt(args, args.fetch))

RobotsNext == CallCheckRobotsTxt

RobotsSpec == RobotsInit /\ [][RobotsNext]_vars

\* Whether the file has a disallow rule for the agent: in the agent's own
\* group if it has one, in the group of all agents otherwise.
Disallows(robots, agent) ==
    IF agent \in robots.agents THEN agent \in robots.disallowed
    ELSE robots.wildcard /\ robots.disallow

\* C26: for a robots.txt that was fetched, the bot-access check returns
\* fail, 0, critical when GPTBot or ChatGPT-User is disallowed; warn, 60 when
\* only other AI crawlers are; warn, 50 when there is no file; pass, 100 when
\* no AI crawler is disallowed.
C26_BotAccessVerdict ==
    (ret # Null /\ args.fetch = "ok") =>
        LET robots == args.robots
            r == ret[1]
            primary == Disallows(robots, "gptbot")
                           \/ Disallows(robots, "chatgpt-user")
            other == \E bot \in AI_BOTS : Disallows(robots, Lower(bot))
        IN  IF robots.status_code # 200
            THEN r.status = "warn" /\ r.score = 50
            ELSE IF primary
            THEN r.status = "fail" /\ r.score = 0
                     /\ r.impact_level = "critical"
            ELSE IF other
            THEN r.status = "warn" /\ r.score = 60
            ELSE r.status = "pass" /\ r.score = 100

\* The number of headings of the pages check_direct_answers is called with.
MaxHeadings == 2

\* The headings of those pages: a paragraph after a heading has a word count
\* at or next to the limits of an answer block.
Headings ==
    {[interrogative |-> q, next |-> "p", words |-> w] :
        q \in BOOLEAN, w \in {39, 40, 60, 61}}
    \cup {[interrogative |-> q, next |-> n, words |-> 0] :
        q \in BOOLEAN, n \in {"div", "none"}}

AnswersInit ==
    CallInit([headings : UNION {[1..n -> Headings] : n \in 0..MaxHeadings}])

CallCheckDirectAnswers == Return(check_direct_answers(args))

AnswersNext == CallCheckDirectAnswers

AnswersSpec == AnswersInit /\ [][AnswersNext]_vars

\* C27: with Q the number of interrogative headings of the page and D the
\* number of them immediately followed by a paragraph of 40 to 60 words, the
\* direct-answer check returns fail/0 when Q = 0, pass/100 when D = Q > 0,
\* warn/60 when 0 < D < Q and fail/20 when D = 0 < Q.
C27_DirectAnswerVerdict ==
    ret # Null =>
        LET Q == Len(SelectSeq(args.headings, LAMBDA h : h.interrogative))
            D == Len(SelectSeq(args.headings,
                               LAMBDA h : /\ h.interrogative /\ h.next = "p"
                                          /\ h.words \in 40..60))
            r == ret[1]
        IN  IF Q = 0 THEN r.status = "fail" /\ r.score = 0
            ELSE IF D = Q THEN r.status = "pass" /\ r.score = 100
            ELSE IF D > 0 THEN r.status = "warn" /\ r.score = 60
            ELSE r.status = "fail" /\ r.score = 20

(***************************************************************************)
(* The report's score breakdown, api/report.py: the category means and the *)
(* weights of calculate_overall_score, each product truncated on its own.  *)
(***************************************************************************)
\* A breakdown of the means with no weight applied.
calculate_score_breakdown_unweighted(rs) ==
    [ai_access |-> FloatInt(category_average(rs, "ai_readiness")),
     content_quality |-> FloatInt(category_average(rs, "content")),
     structural_optimization |-> FloatInt(category_average(rs, "structure")),
     technical_performance |-> FloatInt(category_average(rs, "technical"))]

calculate_score_breakdown(rs) ==
    [ai_access |->
         FloatInt(FloatMul(category_average(rs, "ai_readiness"), TrueDiv(2, 5))),
     content_quality |->
         FloatInt(FloatMul(category_average(rs, "content"), TrueDiv(7, 20))),
     structural_optimization |->
         FloatInt(FloatMul(category_average(rs, "structure"), TrueDiv(3, 20))),
     technical_performance |->
         FloatInt(FloatMul(category_average(rs, "technical"), TrueDiv(1, 10)))]

\* The scores of the results the breakdown is called with.
BreakdownValues == {0, 6, 97, 99}

\* At most one result per category, with or without a second ai_readiness
\* result in front.
BreakdownInputs ==
    LET lists == {ScoreInput(f, Len(CategoryOrder)) :
                     f \in [CheckCategory ->
                               {Null} \cup {Some(v) : v \in BreakdownValues}]}
    IN  lists \cup {<<Result("Score Input", "ai_readiness", "pass", 100,
                             "low", FALSE)>> \o rs : rs \in lists}

BreakdownInit == CallInit([results : BreakdownInputs])

CallScoreBreakdown == Return(calculate_score_breakdown(args.results))

BreakdownNext == CallScoreBreakdown

BreakdownSpec == BreakdownInit /\ [][BreakdownNext]_vars

\* The sum of the four components of a breakdown.
BreakdownTotal(b) ==
    b.ai_access + b.content_quality + b.structural_optimization
        + b.technical_performance

\* C29: the four components of the breakdown of a result list add up to at
\* most the overall score of the same list and to no less than that score
\* minus 3, and lie in 0..40, 0..35, 0..15 and 0..10.
C29_BreakdownWithinOverall ==
    ret # Null =>
        LET b == ret[1]
            overall == calculate_overall_score(args.results)
        IN  /\ BreakdownTotal(b) <= overall
            /\ overall - BreakdownTotal(b) <= 3
            /\ b.ai_access \in 0..40
            /\ b.content_quality \in 0..35
            /\ b.structural_optimization \in 0..15
            /\ b.technical_performance \in 0..10

\* A breakdown of results in all four categories that falls short of the
\* overall score by 3.
C29_Witness ==
    /\ ret # Null
    /\ \A c \in CheckCategory : InCategory(args.results, c) # <<>>
    /\ calculate_overall_score(args.results) - BreakdownTotal(ret[1]) = 3

\* C28: with the same page and no failing request or commit, the chained
\* run (2) and the sequential run (1) go through the same (status, progress)
\* values, so at equal progress above 0 they have the same status, and once
\* both are complete they hold the same overall_score, total_checks_run and
\* total_issues_found.
C28_ChainMatchesSequential ==
    (\A r \in PairIds : Disruptions(r) = 0) =>
        /\ (runs[1].progress > 0 /\ runs[1].progress = runs[2].progress) =>
               runs[1].status = runs[2].status
        /\ (runs[1].status = "complete" /\ runs[2].status = "complete") =>
               /\ runs[1].overall_score = runs[2].overall_score
               /\ runs[1].total_checks_run = runs[2].total_checks_run
               /\ runs[1].total_issues_found = runs[2].total_issues_found
====
